---- MODULE Spec2Model ----
(***************************************************************************)
(* State-machine model of wine_labels.py: one run of the script downloads  *)
(* a sheet, cleans and filters its rows, exports wines.json, writes one    *)
(* HTML page per wine, lays the labels out in wine_labels.pdf and pushes   *)
(* wines.json with git.                                                    *)
(*                                                                         *)
(* Text is modelled as a sequence of characters, each character a TLA+     *)
(* string ("W", "1", " "); the characters the code treats specially have   *)
(* names: "CR", "LF", "TAB", and the zero-width ones "U+200B", "U+200C",   *)
(* "U+200D", "U+FEFF".  A dict is a function from keys (texts) to values.  *)
(***************************************************************************)
EXTENDS Integers, Sequences, FiniteSets, TLC

VARIABLES
    pc,             \* position of the process in the script
    run,            \* ordinal of the current invocation of the script
    sheet,          \* the remote sheet: [header |-> keys, rows |-> value lists]
    raw_rows,       \* fetch_wines_from_google_sheet: list(reader)
    cleaned_rows,   \* fetch_wines_from_google_sheet: cleaned_rows
    final_rows,     \* fetch_wines_from_google_sheet: final_rows
    seen_ids,       \* fetch_wines_from_google_sheet: seen_ids
    row_i,          \* number of cleaned rows the filter loop has consumed
    admitted,       \* history: source index of every row appended to final_rows
    wines,          \* __main__: wines
    folder,         \* file system: does the directory wine_pages exist
    snapshot,       \* file system: text of wines.json, or Missing
    prior_fs,       \* history: the file system when the run started
    html_files,     \* file system: path |-> content of the files under wine_pages
    html_urls,      \* generate_html_pages: html_urls
    pdf_file,       \* file system: the saved wine_labels.pdf (its blocks), or Missing
    pdf_i,          \* generate_pdf: number of wines drawn so far
    x,              \* generate_pdf: x
    y,              \* generate_pdf: y
    page,           \* generate_pdf: number of the canvas page being drawn
    blocks,         \* generate_pdf: what has been drawn on the canvas
    git_steps,      \* push_to_github: the git commands run, each with its outcome
    stdout,         \* what the run has printed
    effects,        \* history: the outputs this run has produced, in order
    cf_in,          \* clean_field: the argument
    cf_once,        \* clean_field(value)
    cf_twice        \* clean_field(clean_field(value))

ingestVars == <<raw_rows, cleaned_rows, final_rows, seen_ids, row_i, admitted>>
fsVars     == <<folder, snapshot, html_files, pdf_file>>
pdfVars    == <<pdf_i, x, y, page, blocks>>
cfVars     == <<cf_in, cf_once, cf_twice>>
vars == <<pc, run, sheet, ingestVars, wines, fsVars, prior_fs, html_urls,
          pdfVars, git_steps, stdout, effects, cfVars>>

----------------------------------------------------------------------------
(* Bounds of the model *)

\* longest text given to clean_field
MaxLen == 4
\* most rows of a sheet given to the ingestion step alone
MaxRows == 4
\* most rows of the sheet in a whole run
MaxSheetRows == 3
\* most invocations of the script, one after the other
MaxRuns == 2
\* most wines given to generate_pdf alone
MaxWines == 17

----------------------------------------------------------------------------
(* Text helpers: Python's str methods *)

Range(s) == {s[i] : i \in 1..Len(s)}

\* the characters ZW_CHARS_RE matches: U+200B to U+200D, and U+FEFF
ZW_CHARS == {"U+200B", "U+200C", "U+200D", "U+FEFF"}

\* the characters str.strip() removes among those of the model
IsSpace(c) == c \in {" ", "TAB", "CR", "LF"}

RECURSIVE LStrip(_)
LStrip(s) == IF s # <<>> /\ IsSpace(Head(s)) THEN LStrip(Tail(s)) ELSE s

RECURSIVE RStrip(_)
RStrip(s) ==
    IF s # <<>> /\ IsSpace(s[Len(s)]) THEN RStrip(SubSeq(s, 1, Len(s) - 1)) ELSE s

\* str.strip()
Strip(s) == RStrip(LStrip(s))

LowerLetters == <<"a","b","c","d","e","f","g","h","i","j","k","l","m",
                  "n","o","p","q","r","s","t","u","v","w","x","y","z">>
UpperLetters == <<"A","B","C","D","E","F","G","H","I","J","K","L","M",
                  "N","O","P","Q","R","S","T","U","V","W","X","Y","Z">>

UpperChar(c) ==
    IF \E i \in 1..Len(LowerLetters) : LowerLetters[i] = c
    THEN UpperLetters[CHOOSE i \in 1..Len(LowerLetters) : LowerLetters[i] = c]
    ELSE c

\* str.upper()
Upper(s) == [i \in 1..Len(s) |-> UpperChar(s[i])]

\* str.startswith(prefix)
StartsWith(s, prefix) ==
    Len(s) >= Len(prefix) /\ SubSeq(s, 1, Len(prefix)) = prefix

Digits == <<"0","1","2","3","4","5","6","7","8","9">>

\* str(n) for 0 <= n <= 99
IntStr(n) ==
    IF n < 10 THEN <<Digits[n + 1]>>
    ELSE <<Digits[(n \div 10) + 1], Digits[(n % 10) + 1]>>

\* re.sub of ZW_CHARS_RE by "": the zero-width characters are deleted
StripZW(s) == SelectSeq(s, LAMBDA c : c \notin ZW_CHARS)

\* str.replace('\r', ' ').replace('\n', ' ')
ReplaceBreaks(s) == [i \in 1..Len(s) |-> IF s[i] \in {"CR", "LF"} THEN " " ELSE s[i]]

----------------------------------------------------------------------------
(* clean_field.  A value is None, a text or an integer (a non-str value). *)

None     == [t |-> "none"]
Str(s)   == [t |-> "str", s |-> s]
Num(n)   == [t |-> "int", n |-> n]

\* a plausible slip: trimming before the zero-width characters are deleted
clean_field_StripFirst(value) ==
    IF value.t = "none" THEN <<>>
    ELSE LET v0 == IF value.t = "str" THEN value.s ELSE IntStr(value.n)
         IN  StripZW(Strip(ReplaceBreaks(v0)))

clean_field(value) ==
    IF value.t = "none" THEN <<>>
    ELSE LET v0 == IF value.t = "str" THEN value.s ELSE IntStr(value.n)
             v  == StripZW(v0)
         IN  Strip(ReplaceBreaks(v))

----------------------------------------------------------------------------
(* The sheet and csv.DictReader *)

KeyID   == <<"I","D">>
KeyName == <<"N","a","m","e">>

\* header rows: plain, with padded column names, with a byte order mark before
\* the first column name, and without an ID column
HeaderPool == { <<KeyID, KeyName>>,
                << <<" ","I","D">>, <<"N","a","m","e"," ">> >>,
                << <<"U+FEFF","I","D">>, KeyName >>,
                <<KeyName>> }

W1     == <<"W","1">>
Malbec == <<"M","a","l","b","e","c">>
\* the four rows of the spec's scenario
ScenarioRows == << <<W1, Malbec>>,
                   << <<"w","1">>, <<"D","u","p">> >>,
                   << <<"X","1">>, <<"S","k","i","p">> >>,
                   << <<"W","2">>, <<>> >> >>

\* value rows of a sheet: the scenario's, a W1 that needs cleaning, a W2 with a
\* name, and a short row (its Name is None)
RowPool == Range(ScenarioRows) \cup
           { << <<" ","W","1","U+200B">>, <<"M","CR","LF">> >>,
             << <<"W","2">>, <<"R","i","o","j","a">> >>,
             << <<"W","2">> >> }

\* value rows of the sheets of a whole run
RunRowPool == { ScenarioRows[1], ScenarioRows[2], ScenarioRows[3],
                << <<" ","W","1","U+200B">>, <<"M","CR","LF">> >>,
                << <<"W","2">>, <<"R","i","o","j","a">> >> }

RECURSIVE SeqsUpTo(_, _)
\* the sequences over S of length at most n
SeqsUpTo(S, n) ==
    IF n = 0 THEN {<<>>}
    ELSE LET shorter == SeqsUpTo(S, n - 1)
         IN  shorter \cup {Append(s, e) : s \in {t \in shorter : Len(t) = n - 1}, e \in S}

\* sheets whose rows hold no more values than the header has columns
Sheets(pool, n) ==
    {sh \in [header : HeaderPool, rows : SeqsUpTo(pool, n)] :
        \A i \in 1..Len(sh.rows) : Len(sh.rows[i]) <= Len(sh.header)}

\* one row of csv.DictReader: a missing value is None (restval)
DictRow(header, values) ==
    [k \in Range(header) |->
        LET i == CHOOSE j \in 1..Len(header) :
                    header[j] = k /\ \A l \in (j + 1)..Len(header) : header[l] # k
        IN  IF i <= Len(values) THEN Str(values[i]) ELSE None]

RECURSIVE DictReader(_, _)
\* list(csv.DictReader(lines)): a row without values is skipped
DictReader(header, rows) ==
    IF rows = <<>> THEN <<>>
    ELSE IF Head(rows) = <<>> THEN DictReader(header, Tail(rows))
    ELSE <<DictRow(header, Head(rows))>> \o DictReader(header, Tail(rows))

----------------------------------------------------------------------------
(* fetch_wines_from_google_sheet *)

\* a file of text: wines.json
NoFile == [exists |-> FALSE, text |-> <<>>]
File(text) == [exists |-> TRUE, text |-> text]

\* dict.get(key, default)
Get(row, key, default) == IF key \in DOMAIN row THEN row[key] ELSE default

\* { (k.strip() if k else k): clean_field(v) for k, v in row.items() }
CleanRow(row) ==
    [k \in {Strip(k0) : k0 \in DOMAIN row} |->
        clean_field(row[CHOOSE k0 \in DOMAIN row : Strip(k0) = k])]

\* row.get("ID", "").strip()
WineId(row) == Strip(Get(row, KeyID, <<>>))

\* row.get("Name", "").strip()
WineName(row) == Strip(Get(row, KeyName, <<>>))

\* a plausible slip: the prefix test without upper()
Qualifies_CaseSensitive(row) ==
    StartsWith(WineId(row), <<"W">>) /\ WineName(row) # <<>>

\* wine_id.upper().startswith("W") and name
Qualifies(row) ==
    StartsWith(Upper(WineId(row)), <<"W">>) /\ WineName(row) # <<>>

\* a plausible slip: IDs compared after upper()
IsDuplicate_CaseFold(wine_id, seen) ==
    \E s \in seen : Upper(s) = Upper(wine_id)

\* a plausible slip: the duplicate test left out
IsDuplicate_Never(wine_id, seen) == FALSE

\* wine_id in seen_ids
IsDuplicate(wine_id, seen) == wine_id \in seen

Say(line) == stdout' = Append(stdout, line)

\* a plausible slip: the export moved into a finally clause of the download, so
\* that an empty wines.json is written when the download fails
Fetch_WritesOnFailure ==
    /\ pc = "fetch"
    /\ \E outcome \in {"ok", "http_error", "decode_error"} :
         IF outcome = "ok"
         THEN /\ raw_rows' = DictReader(sheet.header, sheet.rows)
              /\ stdout' = stdout \o << <<"Downloading CSV from Google Sheets...">>,
                                        <<"Raw rows fetched from sheet: ">>
                                           \o IntStr(Len(raw_rows')) >>
              /\ pc' = "clean"
              /\ UNCHANGED <<snapshot, effects>>
         ELSE /\ raw_rows' = raw_rows
              /\ stdout' = stdout \o << <<"Downloading CSV from Google Sheets...">>,
                                        <<"Traceback: ", outcome>> >>
              /\ snapshot' = File(<<"[", "]">>)
              /\ effects' = Append(effects, <<"write", "wines.json">>)
              /\ pc' = "aborted"
    /\ UNCHANGED <<run, sheet, cleaned_rows, final_rows, seen_ids, row_i, admitted,
                   wines, folder, html_files, pdf_file, prior_fs, html_urls, pdfVars,
                   git_steps, cfVars>>

\* requests.get, raise_for_status, decode, DictReader: an HTTP error status or
\* bytes that are not UTF-8 raise, and nothing catches the exception
Fetch ==
    /\ pc = "fetch"
    /\ \E outcome \in {"ok", "http_error", "decode_error"} :
         IF outcome = "ok"
         THEN /\ raw_rows' = DictReader(sheet.header, sheet.rows)
              /\ stdout' = stdout \o << <<"Downloading CSV from Google Sheets...">>,
                                        <<"Raw rows fetched from sheet: ">>
                                           \o IntStr(Len(raw_rows')) >>
              /\ pc' = "clean"
         ELSE /\ raw_rows' = raw_rows
              /\ stdout' = stdout \o << <<"Downloading CSV from Google Sheets...">>,
                                        <<"Traceback: ", outcome>> >>
              /\ pc' = "aborted"
    /\ UNCHANGED <<run, sheet, cleaned_rows, final_rows, seen_ids, row_i, admitted,
                   wines, fsVars, prior_fs, html_urls, pdfVars, git_steps,
                   effects, cfVars>>

\* the loop of lines 45-48
CleanRows ==
    /\ pc = "clean"
    /\ cleaned_rows' = [i \in 1..Len(raw_rows) |-> CleanRow(raw_rows[i])]
    /\ pc' = "filter"
    /\ UNCHANGED <<run, sheet, raw_rows, final_rows, seen_ids, row_i, admitted,
                   wines, fsVars, prior_fs, html_urls, pdfVars, git_steps,
                   stdout, effects, cfVars>>

\* one iteration of the loop of lines 53-61
FilterRow ==
    /\ pc = "filter"
    /\ row_i < Len(cleaned_rows)
    /\ LET row     == cleaned_rows[row_i + 1]
           wine_id == WineId(row)
       IN  IF Qualifies(row)
           THEN IF IsDuplicate(wine_id, seen_ids)
                THEN /\ Say(<<"WARNING: duplicate ID '">> \o wine_id
                               \o <<"' - skipping">>)
                     /\ UNCHANGED <<seen_ids, final_rows, admitted>>
                ELSE /\ seen_ids' = seen_ids \cup {wine_id}
                     /\ final_rows' = Append(final_rows, row)
                     /\ admitted' = Append(admitted, row_i + 1)
                     /\ UNCHANGED stdout
           ELSE UNCHANGED <<seen_ids, final_rows, admitted, stdout>>
    /\ row_i' = row_i + 1
    /\ UNCHANGED <<pc, run, sheet, raw_rows, cleaned_rows, wines, fsVars,
                   prior_fs, html_urls, pdfVars, git_steps, effects, cfVars>>

\* lines 63-64 and the assignment of line 178
FilterReturn ==
    /\ pc = "filter"
    /\ row_i = Len(cleaned_rows)
    /\ Say(<<"Final rows to generate labels for: ">> \o IntStr(Len(final_rows)))
    /\ wines' = final_rows
    /\ pc' = "export"
    /\ UNCHANGED <<run, sheet, ingestVars, fsVars, prior_fs, html_urls,
                   pdfVars, git_steps, effects, cfVars>>

----------------------------------------------------------------------------
(* export_json: json.dump(data, f, indent=2, ensure_ascii=False) *)

\* the escape of one character inside a JSON string
JsonChar(c) ==
    CASE c = "\"" -> <<"\\", "\"">>
      [] c = "\\" -> <<"\\", "\\">>
      [] c = "TAB" -> <<"\\", "t">>
      [] OTHER -> <<c>>

RECURSIVE JsonEscape(_)
JsonEscape(s) == IF s = <<>> THEN <<>> ELSE JsonChar(Head(s)) \o JsonEscape(Tail(s))

JsonString(s) == <<"\"">> \o JsonEscape(s) \o <<"\"">>

RECURSIVE JsonMembers(_, _)
\* the members of one dict, in the order of its keys
JsonMembers(row, keys) ==
    IF keys = <<>> THEN <<>>
    ELSE <<"LF", "    ">> \o JsonString(Head(keys)) \o <<":", " ">>
            \o JsonString(row[Head(keys)])
            \o (IF Len(keys) > 1 THEN <<",">> ELSE <<>>)
            \o JsonMembers(row, Tail(keys))

JsonDict(row, keys) ==
    IF keys = <<>> THEN <<"{", "}">>
    ELSE <<"{">> \o JsonMembers(row, keys) \o <<"LF", "  ", "}">>

RECURSIVE JsonItems(_, _)
JsonItems(data, keys) ==
    IF data = <<>> THEN <<>>
    ELSE <<"LF", "  ">> \o JsonDict(Head(data), keys)
            \o (IF Len(data) > 1 THEN <<",">> ELSE <<>>)
            \o JsonItems(Tail(data), keys)

\* the text json.dump writes; keys is the order of every dict's keys
JsonDump(data, keys) ==
    IF data = <<>> THEN <<"[", "]">>
    ELSE <<"[">> \o JsonItems(data, keys) \o <<"LF", "]">>

\* the keys of a cleaned row, in the order the dict holds them
Columns == [i \in 1..Len(sheet.header) |-> Strip(sheet.header[i])]

export_json ==
    /\ pc = "export"
    /\ snapshot' = File(JsonDump(wines, Columns))
    /\ Say(<<"Exported ">> \o IntStr(Len(wines)) \o <<" wines to wines.json">>)
    /\ effects' = Append(effects, <<"write", "wines.json">>)
    /\ pc' = "html"
    /\ UNCHANGED <<run, sheet, ingestVars, wines, folder, html_files, pdf_file,
                   prior_fs, html_urls, pdfVars, git_steps, cfVars>>

----------------------------------------------------------------------------
(* generate_html_pages *)

HTML_FOLDER == <<"w","i","n","e","_","p","a","g","e","s">>

\* a plausible slip: the page named after the wine's Name
HtmlFilename_ByName(wine) ==
    HTML_FOLDER \o <<"/">> \o <<"w","i","n","e","_">> \o wine[KeyName]
        \o <<".","h","t","m","l">>

\* f"{HTML_FOLDER}/wine_{wine_id}.html"
HtmlFilename(wine) ==
    HTML_FOLDER \o <<"/">> \o <<"w","i","n","e","_">> \o wine[KeyID]
        \o <<".","h","t","m","l">>

Field(wine, key) == Get(wine, key, <<>>)

\* the document of lines 74-94, its fixed parts as single tokens
HtmlContent(wine) ==
    <<"<title>">> \o Field(wine, KeyName) \o <<" (">>
        \o Field(wine, <<"V","i","n","t","a","g","e">>) \o <<")", "</title>", "<h1>">>
        \o Field(wine, KeyName) \o <<" (">>
        \o Field(wine, <<"V","i","n","t","a","g","e">>) \o <<")", "</h1>", "Type:">>
        \o Field(wine, <<"T","y","p","e">>) \o <<"Region:">>
        \o Field(wine, <<"R","e","g","i","o","n">>) \o <<"Purchased at:">>
        \o Field(wine, <<"P","u","r","c","h","a","s","e","d"," ","a","t">>)
        \o <<"Notes:">> \o Field(wine, <<"N","o","t","e","s">>)

\* one iteration of the loop of lines 69-97; open() raises when the folder is missing
HtmlPage ==
    /\ pc = "html"
    /\ Len(html_urls) < Len(wines)
    /\ LET wine          == wines[Len(html_urls) + 1]
           html_filename == HtmlFilename(wine)
       IN  /\ html_urls' = Append(html_urls, html_filename)
           /\ IF folder
              THEN /\ html_files' = (html_filename :> HtmlContent(wine)) @@ html_files
                   /\ effects' = Append(effects, <<"write">> \o html_filename)
                   /\ pc' = pc
              ELSE /\ pc' = "aborted"
                   /\ UNCHANGED <<html_files, effects>>
    /\ UNCHANGED <<run, sheet, ingestVars, wines, folder, snapshot, pdf_file,
                   prior_fs, pdfVars, git_steps, stdout, cfVars>>

HtmlReturn ==
    /\ pc = "html"
    /\ Len(html_urls) = Len(wines)
    /\ pc' = "pdf"
    /\ UNCHANGED <<run, sheet, ingestVars, wines, fsVars, prior_fs, html_urls,
                   pdfVars, git_steps, stdout, effects, cfVars>>

----------------------------------------------------------------------------
(* generate_pdf *)

\* height of reportlab's letter page, in points
PageHeight == 792
margin_x == 50
margin_y == 50
col_width == 300
row_height == 120
qr_size == 80
items_per_row == 2
items_per_page == 8

x_start == margin_x
y_start == PageHeight - margin_y - row_height

GITHUB_USER == "tx3d3sign"
GITHUB_REPO == "wine-db"

\* f"https://{GITHUB_USER}.github.io/{GITHUB_REPO}/wine_pages/"
BASE_URL == <<"https://", GITHUB_USER, ".github.io/", GITHUB_REPO, "/wine_pages/">>

\* a plausible slip: the link built from the wine's Name
QrUrl_ByName(wine) ==
    BASE_URL \o <<"w","i","n","e","_">> \o wine[KeyName] \o <<".","h","t","m","l">>

\* f"{BASE_URL}wine_{wine_id}.html"
QrUrl(wine) ==
    BASE_URL \o <<"w","i","n","e","_">> \o wine[KeyID] \o <<".","h","t","m","l">>

\* a plausible slip: the page test done before the row test
NextCursor_PageFirst(i, cx, cy) ==
    LET paged == i % items_per_page = 0
        px    == IF paged THEN x_start ELSE cx
        py    == IF paged THEN y_start ELSE cy
    IN  IF i % items_per_row = 0
        THEN [x |-> x_start, y |-> py - row_height, newpage |-> paged]
        ELSE [x |-> px + col_width, y |-> py, newpage |-> paged]

\* a plausible slip: the row wrapped after every label
NextCursor_OneColumn(i, cx, cy) ==
    IF i % items_per_page = 0
    THEN [x |-> x_start, y |-> y_start, newpage |-> TRUE]
    ELSE [x |-> x_start, y |-> cy - row_height, newpage |-> FALSE]

\* lines 162-171: the cursor after label i was drawn at (cx, cy)
NextCursor(i, cx, cy) ==
    LET rx == IF i % items_per_row = 0 THEN x_start ELSE cx + col_width
        ry == IF i % items_per_row = 0 THEN cy - row_height ELSE cy
    IN  IF i % items_per_page = 0
        THEN [x |-> x_start, y |-> y_start, newpage |-> TRUE]
        ELSE [x |-> rx, y |-> ry, newpage |-> FALSE]

\* lines 116-130: a fresh canvas, the cursor at the top left
PdfBegin ==
    /\ pc = "pdf"
    /\ pdf_i' = 0
    /\ x' = x_start
    /\ y' = y_start
    /\ page' = 1
    /\ blocks' = <<>>
    /\ pc' = "pdf_loop"
    /\ UNCHANGED <<run, sheet, ingestVars, wines, fsVars, prior_fs, html_urls,
                   git_steps, stdout, effects, cfVars>>

\* one iteration of the loop of lines 132-171
PdfDraw ==
    /\ pc = "pdf_loop"
    /\ pdf_i < Len(wines)
    /\ LET i      == pdf_i + 1
           wine   == wines[i]
           text_x == x + qr_size + 10
           text_y == y + qr_size - 10
           cursor == NextCursor(i, x, y)
       IN  /\ blocks' = Append(blocks,
                  [page |-> page, x |-> x, y |-> y, size |-> qr_size,
                   url |-> QrUrl(wine), text_x |-> text_x, text_y |-> text_y,
                   title |-> Field(wine, KeyName) \o <<" (">>
                               \o Field(wine, <<"V","i","n","t","a","g","e">>)
                               \o <<")">>])
           /\ x' = cursor.x
           /\ y' = cursor.y
           /\ page' = IF cursor.newpage THEN page + 1 ELSE page
           /\ pdf_i' = i
    /\ UNCHANGED <<pc, run, sheet, ingestVars, wines, fsVars, prior_fs,
                   html_urls, git_steps, stdout, effects, cfVars>>

\* lines 173-174: c.save()
PdfSave ==
    /\ pc = "pdf_loop"
    /\ pdf_i = Len(wines)
    /\ pdf_file' = [exists |-> TRUE, blocks |-> blocks]
    /\ Say(<<"PDF saved: wine_labels.pdf">>)
    /\ effects' = Append(effects, <<"write", "wine_labels.pdf">>)
    /\ pc' = "git_add"
    /\ UNCHANGED <<run, sheet, ingestVars, wines, folder, snapshot, html_files,
                   prior_fs, html_urls, pdfVars, git_steps, cfVars>>

----------------------------------------------------------------------------
(* push_to_github *)

\* the exit statuses a git command may end with
ExitStatuses == {0, 1, 128}

\* a plausible slip: check=True left out, so no exit status raises
Raises_Unchecked(rc) == FALSE

\* subprocess.run(..., check=True) raises CalledProcessError on a non-zero status
Raises(rc) == rc # 0

\* one subprocess.run of the try block; a raise goes to the except clause, which
\* prints and returns, and the script ends
GitStep(cmd, at, next) ==
    /\ pc = at
    /\ \E rc \in ExitStatuses :
         /\ git_steps' = Append(git_steps, [cmd |-> cmd, rc |-> rc])
         /\ effects' = Append(effects, <<"git", cmd>>)
         /\ IF Raises(rc)
            THEN /\ Say(<<"Git push failed: ", "git ", cmd>>)
                 /\ pc' = "done"
            ELSE /\ pc' = next
                 /\ IF next = "done"
                    THEN Say(<<"Successfully pushed wines.json to GitHub">>)
                    ELSE UNCHANGED stdout
    /\ UNCHANGED <<run, sheet, ingestVars, wines, fsVars, prior_fs, html_urls,
                   pdfVars, cfVars>>

GitAdd    == GitStep("add", "git_add", "git_commit")
GitCommit == GitStep("commit", "git_commit", "git_push")
GitPush   == GitStep("push", "git_push", "done")

----------------------------------------------------------------------------
(* The script from its first line: lines 22-23, then __main__ *)

\* if not os.path.exists(HTML_FOLDER): os.makedirs(HTML_FOLDER)
LoadModule ==
    /\ pc = "load"
    /\ folder' = TRUE
    /\ effects' = IF folder THEN effects ELSE Append(effects, <<"mkdir">> \o HTML_FOLDER)
    /\ pc' = "fetch"
    /\ UNCHANGED <<run, sheet, ingestVars, wines, snapshot, html_files, pdf_file,
                   prior_fs, html_urls, pdfVars, git_steps, stdout, cfVars>>

\* the files the script reads or writes
FileSystem ==
    [folder |-> folder, snapshot |-> snapshot, html_files |-> html_files,
     pdf_file |-> pdf_file]

\* what the sheet's owner may have done to it between two runs
SheetEdits(sh) ==
    {sh}
    \cup {[sh EXCEPT !.rows = Append(@, r)] :
            r \in {q \in RunRowPool : Len(sh.rows) < MaxSheetRows
                                       /\ Len(q) <= Len(sh.header)}}
    \cup {[sh EXCEPT !.rows = SubSeq(@, 1, Len(@) - 1)] :
            r \in {q \in {0} : sh.rows # <<>>}}

\* the script is started again; the file system is as the last run left it
Rerun ==
    /\ pc \in {"done", "aborted"}
    /\ run < MaxRuns
    /\ run' = run + 1
    /\ sheet' \in SheetEdits(sheet)
    /\ prior_fs' = FileSystem
    /\ raw_rows' = <<>>
    /\ cleaned_rows' = <<>>
    /\ final_rows' = <<>>
    /\ seen_ids' = {}
    /\ row_i' = 0
    /\ admitted' = <<>>
    /\ wines' = <<>>
    /\ html_urls' = <<>>
    /\ pdf_i' = 0
    /\ x' = 0
    /\ y' = 0
    /\ page' = 0
    /\ blocks' = <<>>
    /\ git_steps' = <<>>
    /\ stdout' = <<>>
    /\ effects' = <<>>
    /\ pc' = "load"
    /\ UNCHANGED <<fsVars, cfVars>>

----------------------------------------------------------------------------
(* clean_field applied once and twice *)

CleanAlphabet == {"U+200B", "U+FEFF", "CR", "LF", "TAB", " ", "a"}

CleanInputs ==
    {None} \cup {Num(n) : n \in {0, 7, 42}}
           \cup {Str(s) : s \in SeqsUpTo(CleanAlphabet, MaxLen)}

CleanOnce ==
    /\ pc = "cf0"
    /\ cf_once' = clean_field(cf_in)
    /\ pc' = "cf1"
    /\ UNCHANGED <<run, sheet, ingestVars, wines, fsVars, prior_fs, html_urls,
                   pdfVars, git_steps, stdout, effects, cf_in, cf_twice>>

CleanTwice ==
    /\ pc = "cf1"
    /\ cf_twice' = clean_field(Str(cf_once))
    /\ pc' = "cf2"
    /\ UNCHANGED <<run, sheet, ingestVars, wines, fsVars, prior_fs, html_urls,
                   pdfVars, git_steps, stdout, effects, cf_in, cf_once>>

----------------------------------------------------------------------------
(* Specifications *)

\* the variables a run starts with, whatever its input
Fresh ==
    /\ run = 1
    /\ cleaned_rows = <<>>
    /\ final_rows = <<>>
    /\ seen_ids = {}
    /\ row_i = 0
    /\ admitted = <<>>
    /\ snapshot = NoFile
    /\ html_files = [p \in {} |-> <<>>]
    /\ html_urls = <<>>
    /\ pdf_file = [exists |-> FALSE, blocks |-> <<>>]
    /\ pdf_i = 0
    /\ x = 0
    /\ y = 0
    /\ page = 0
    /\ blocks = <<>>
    /\ git_steps = <<>>
    /\ effects = <<>>
    /\ cf_once = <<>>
    /\ cf_twice = <<>>
    /\ prior_fs = FileSystem

\* a whole run of the script, and the runs after it
Init ==
    /\ pc = "load"
    /\ sheet \in Sheets(RunRowPool, MaxSheetRows)
    /\ folder \in BOOLEAN
    /\ raw_rows = <<>>
    /\ wines = <<>>
    /\ stdout = <<>>
    /\ cf_in = None
    /\ Fresh

Next ==
    \/ LoadModule
    \/ Fetch
    \/ CleanRows
    \/ FilterRow
    \/ FilterReturn
    \/ export_json
    \/ HtmlPage
    \/ HtmlReturn
    \/ PdfBegin
    \/ PdfDraw
    \/ PdfSave
    \/ GitAdd
    \/ GitCommit
    \/ GitPush
    \/ Rerun

Spec == Init /\ [][Next]_vars

\* the ingestion step alone, from the rows the download returned
InitIngest ==
    /\ pc = "clean"
    /\ sheet \in Sheets(RowPool, MaxRows)
    /\ folder = TRUE
    /\ raw_rows = DictReader(sheet.header, sheet.rows)
    /\ wines = <<>>
    /\ stdout = << <<"Downloading CSV from Google Sheets...">>,
                   <<"Raw rows fetched from sheet: ">> \o IntStr(Len(raw_rows)) >>
    /\ cf_in = None
    /\ Fresh

NextIngest == CleanRows \/ FilterRow \/ FilterReturn

SpecIngest == InitIngest /\ [][NextIngest]_vars

\* n admitted records, their IDs W1, W2, ...
WineList(n) ==
    [i \in 1..n |-> (KeyID :> (<<"W">> \o IntStr(i))) @@ (KeyName :> (<<"N">> \o IntStr(i)))]

\* generate_pdf alone, on any number of records
InitLayout ==
    /\ pc = "pdf"
    /\ sheet = [header |-> <<KeyID, KeyName>>, rows |-> <<>>]
    /\ folder = TRUE
    /\ raw_rows = <<>>
    /\ wines \in {WineList(n) : n \in 0..MaxWines}
    /\ stdout = <<>>
    /\ cf_in = None
    /\ Fresh

NextLayout == PdfBegin \/ PdfDraw \/ PdfSave

SpecLayout == InitLayout /\ [][NextLayout]_vars

\* clean_field alone, on any value
InitClean ==
    /\ pc = "cf0"
    /\ sheet = [header |-> <<KeyID, KeyName>>, rows |-> <<>>]
    /\ folder = TRUE
    /\ raw_rows = <<>>
    /\ wines = <<>>
    /\ stdout = <<>>
    /\ cf_in \in CleanInputs
    /\ Fresh

NextClean == CleanOnce \/ CleanTwice

SpecClean == InitClean /\ [][NextClean]_vars

----------------------------------------------------------------------------
(* Properties of the ingestion step (SpecIngest) *)

\* the cleaned ID and Name of source row j
CleanedID(j)   == Get(cleaned_rows[j], KeyID, <<>>)
CleanedName(j) == Get(cleaned_rows[j], KeyName, <<>>)

\* the rule of the spec: the ID starts with "W" in either case, the Name is not empty
MeetsRule(j) ==
    /\ CleanedID(j) # <<>>
    /\ CleanedID(j)[1] \in {"W", "w"}
    /\ CleanedName(j) # <<>>

\* source row j is in the returned list
Returned(j) ==
    \E k \in 1..Len(final_rows) : admitted[k] = j /\ final_rows[k] = cleaned_rows[j]

IngestionDone == pc = "export" /\ wines = final_rows

\* an earlier row meets the rule and has the very same cleaned ID
EarlierSameID(j) ==
    \E j2 \in 1..(j - 1) : MeetsRule(j2) /\ CleanedID(j2) = CleanedID(j)

\* C1 as stated: a row is in the returned list if and only if its cleaned ID
\* starts with "W" (in either case) and its cleaned Name is not empty.
C1_AdmittedIffMeetsRule ==
    IngestionDone =>
        \A j \in 1..Len(cleaned_rows) :
            (\E k \in 1..Len(final_rows) : final_rows[k] = cleaned_rows[j])
                <=> MeetsRule(j)

\* C1 amended: a row is in the returned list if and only if it meets the rule
\* and no earlier row that meets the rule has the same cleaned ID.
C1_AdmittedIffMeetsRuleAndFirst ==
    IngestionDone =>
        \A j \in 1..Len(cleaned_rows) :
            Returned(j) <=> (MeetsRule(j) /\ ~EarlierSameID(j))

\* C1's case: a run that returned a row, dropped a repeated ID and rejected a row
C1_Witness ==
    /\ IngestionDone
    /\ \E j \in 1..Len(cleaned_rows) : Returned(j)
    /\ \E j \in 1..Len(cleaned_rows) : MeetsRule(j) /\ EarlierSameID(j) /\ ~Returned(j)
    /\ \E j \in 1..Len(cleaned_rows) : ~MeetsRule(j)

\* C2: the returned records have pairwise different cleaned IDs; of the rows
\* that meet the rule and share an ID exactly the first is returned, as it was
\* cleaned; and the returned records are in source order.
C2_UniqueFirstWinsInOrder ==
    IngestionDone =>
        /\ Len(admitted) = Len(final_rows)
        /\ \A k, l \in 1..Len(final_rows) :
              k # l => Get(final_rows[k], KeyID, <<>>) # Get(final_rows[l], KeyID, <<>>)
        /\ \A k \in 1..Len(final_rows) :
              /\ admitted[k] \in 1..Len(cleaned_rows)
              /\ final_rows[k] = cleaned_rows[admitted[k]]
        /\ \A k, l \in 1..Len(admitted) : k < l => admitted[k] < admitted[l]
        /\ \A j \in 1..Len(cleaned_rows) :
              MeetsRule(j) =>
                 LET same  == {j2 \in 1..Len(cleaned_rows) :
                                  MeetsRule(j2) /\ CleanedID(j2) = CleanedID(j)}
                     first == CHOOSE j2 \in same : \A j3 \in same : j2 <= j3
                 IN  {j2 \in same : Returned(j2)} = {first}

\* C2's case: two rows that meet the rule share an ID and differ in their Name,
\* and two records were returned
C2_Witness ==
    /\ IngestionDone
    /\ Len(final_rows) >= 2
    /\ \E j, j2 \in 1..Len(cleaned_rows) :
          /\ j < j2
          /\ MeetsRule(j) /\ MeetsRule(j2)
          /\ CleanedID(j) = CleanedID(j2)
          /\ CleanedName(j) # CleanedName(j2)

\* the input of the spec's scenario
IsScenario == raw_rows = DictReader(<<KeyID, KeyName>>, ScenarioRows)

Wine(id, name) == (KeyID :> id) @@ (KeyName :> name)

\* C3 as stated: IDs that differ only in letter case count as duplicates, and
\* the scenario's rows yield the single record W1/"Malbec".
C3_DuplicatesIgnoreCase ==
    IngestionDone =>
        /\ \A k, l \in 1..Len(final_rows) :
              k # l => Upper(Get(final_rows[k], KeyID, <<>>))
                          # Upper(Get(final_rows[l], KeyID, <<>>))
        /\ IsScenario => final_rows = <<Wine(W1, Malbec)>>

\* C3 amended: duplicate suppression compares the cleaned IDs as they are, so a
\* row that meets the rule and whose ID differs from every earlier returned ID,
\* be it only in letter case, is returned; the scenario's rows yield W1/"Malbec"
\* and w1/"Dup", in this order.
C3_DuplicatesRespectCase ==
    IngestionDone =>
        /\ \A j \in 1..Len(cleaned_rows) :
              ( /\ MeetsRule(j)
                /\ \E j2 \in 1..(j - 1) :
                      /\ Returned(j2)
                      /\ Upper(CleanedID(j2)) = Upper(CleanedID(j))
                /\ \A j2 \in 1..(j - 1) :
                      Returned(j2) => CleanedID(j2) # CleanedID(j) )
              => Returned(j)
        /\ IsScenario =>
              final_rows = <<Wine(W1, Malbec), Wine(<<"w","1">>, <<"D","u","p">>)>>

\* C3's case: the scenario's rows have been filtered
C3_Witness == IngestionDone /\ IsScenario /\ row_i = 4

----------------------------------------------------------------------------
(* Properties of clean_field (SpecClean) *)

\* C9: clean_field is idempotent: cleaning a cleaned value changes nothing.
C9_CleanFieldIdempotent == pc = "cf2" => cf_twice = cf_once

\* C9's case: a text with a zero-width character, a line break and outer
\* spaces, of which something is left, has been cleaned twice
C9_Witness ==
    /\ pc = "cf2"
    /\ cf_in.t = "str"
    /\ Range(cf_in.s) \cap ZW_CHARS # {}
    /\ Range(cf_in.s) \cap {"CR", "LF"} # {}
    /\ cf_in.s # cf_once
    /\ cf_once # <<>>

----------------------------------------------------------------------------
(* Properties of the label layout (SpecLayout) *)

\* the blocks drawn on page p
BlocksOn(p) == {i \in 1..Len(blocks) : blocks[i].page = p}

\* C8 as stated: with nine records or more, record 8 is the last block of page 1
\* and is at the bottom left, and record 9 is on a fresh page at the top left.
C8_Record8BottomLeft ==
    Len(blocks) >= 9 =>
        /\ blocks[8].page = 1
        /\ \A i \in BlocksOn(1) : i <= 8
        /\ blocks[8].x = x_start
        /\ blocks[8].y = y_start - 3 * row_height
        /\ blocks[9].page = 2
        /\ \A i \in BlocksOn(2) : i >= 9
        /\ blocks[9].x = x_start
        /\ blocks[9].y = y_start

\* C8 amended: with nine records or more, record 8 is the last block of page 1
\* and is at the bottom right (the second column of the fourth row), and record
\* 9 is on a fresh page at the top left.
C8_Record8BottomRight ==
    Len(blocks) >= 9 =>
        /\ blocks[8].page = 1
        /\ \A i \in BlocksOn(1) : i <= 8
        /\ blocks[8].x = x_start + col_width
        /\ blocks[8].y = y_start - 3 * row_height
        /\ blocks[9].page = 2
        /\ \A i \in BlocksOn(2) : i >= 9
        /\ blocks[9].x = x_start
        /\ blocks[9].y = y_start

\* C8's case: a sheet of at least nine labels has been saved
C8_Witness ==
    /\ pc = "git_add"
    /\ Len(wines) >= 9
    /\ pdf_file.exists
    /\ Len(pdf_file.blocks) = Len(wines)

\* C10: label i is on page ((i-1) div 8) + 1, in column (i-1) mod 2 and row
\* ((i-1) mod 8) div 2, at x = 50 + 300 * column and y = page height - 50 - 120
\* - 120 * row; no page holds more than 8 labels, no two labels of a page share
\* a position, and the cursor is at (x_start, y_start) when a page starts.
C10_LayoutFormula ==
    /\ \A i \in 1..Len(blocks) :
          /\ blocks[i].page = ((i - 1) \div 8) + 1
          /\ blocks[i].x = 50 + 300 * ((i - 1) % 2)
          /\ blocks[i].y = (PageHeight - 50 - 120) - 120 * (((i - 1) % 8) \div 2)
    /\ \A p \in 1..(Len(blocks) + 1) : Cardinality(BlocksOn(p)) <= 8
    /\ \A i, j \in 1..Len(blocks) :
          (i # j /\ blocks[i].page = blocks[j].page)
              => <<blocks[i].x, blocks[i].y>> # <<blocks[j].x, blocks[j].y>>
    /\ (pc = "pdf_loop" /\ BlocksOn(page) = {}) => (x = x_start /\ y = y_start)
    /\ pc \in {"pdf_loop", "git_add"} => pdf_i = Len(blocks)

\* C10's case: a third page has been started
C10_Witness ==
    /\ pc = "pdf_loop"
    /\ Len(blocks) = 2 * items_per_page
    /\ page = 3

----------------------------------------------------------------------------
(* Properties of a whole run (Spec) *)

\* the run has left generate_pdf: push_to_github is next, under way or over
GenerationDone == pc \in {"git_add", "git_commit", "git_push", "done"}

\* the text wines.json had before the run, a missing file counting as ""
PriorText == IF prior_fs.snapshot.exists THEN prior_fs.snapshot.text ELSE <<>>

\* C4: git add, commit and push run only if the text export_json wrote in this
\* run differs from the text wines.json had before the run.
C4_PublishOnlyOnChange ==
    git_steps # <<>> => snapshot.text # PriorText

\* the run ended in the exception of a failed download
FetchFailed ==
    /\ pc = "aborted"
    /\ stdout # <<>>
    /\ Head(stdout[Len(stdout)]) = "Traceback: "

\* C5 as stated: when the fetch fails the run stops there, ingestion does not
\* run, and the run leaves no output of any kind in the file system.
C5_NoOutputOnFetchFailure ==
    FetchFailed =>
        /\ cleaned_rows = <<>> /\ final_rows = <<>> /\ wines = <<>>
        /\ git_steps = <<>>
        /\ effects = <<>>
        /\ FileSystem = prior_fs

\* C5 amended: when the fetch fails the run stops there, ingestion does not
\* run, and neither wines.json, nor a detail document, nor the label sheet is
\* written, nor is a git command run; the one output the run may have produced
\* is the directory wine_pages, made before the fetch when it did not exist.
C5_OnlyFolderOnFetchFailure ==
    FetchFailed =>
        /\ cleaned_rows = <<>> /\ final_rows = <<>> /\ wines = <<>> /\ row_i = 0
        /\ html_urls = <<>> /\ blocks = <<>>
        /\ git_steps = <<>>
        /\ snapshot = prior_fs.snapshot
        /\ html_files = prior_fs.html_files
        /\ pdf_file = prior_fs.pdf_file
        /\ folder
        /\ effects = IF prior_fs.folder THEN <<>> ELSE << <<"mkdir">> \o HTML_FOLDER >>

\* C5's case: the fetch failed in a run that found earlier outputs in place
C5_Witness ==
    /\ FetchFailed
    /\ prior_fs.snapshot.exists
    /\ prior_fs.pdf_file.exists
    /\ DOMAIN prior_fs.html_files # {}

GitOrder == <<"add", "commit", "push">>

\* C6: the git commands run in the order add, commit, push; a command that
\* ends with a non-zero status is the last one run, the failure is printed,
\* the success message is not, and the script ends normally, wines.json, every
\* detail document and the label sheet being written before the first command.
C6_PublishFailureContained ==
    /\ Len(git_steps) <= 3
    /\ \A k \in 1..Len(git_steps) :
          /\ git_steps[k].cmd = GitOrder[k]
          /\ git_steps[k].rc # 0 =>
                /\ k = Len(git_steps)
                /\ pc = "done"
                /\ Head(stdout[Len(stdout)]) = "Git push failed: "
                /\ <<"Successfully pushed wines.json to GitHub">> \notin Range(stdout)
    /\ git_steps # <<>> =>
          /\ pc \in {"git_commit", "git_push", "done"}
          /\ snapshot.exists /\ <<"write", "wines.json">> \in Range(effects)
          /\ pdf_file.exists /\ <<"write", "wine_labels.pdf">> \in Range(effects)
          /\ Len(html_urls) = Len(wines)
          /\ \A i \in 1..Len(html_urls) :
                /\ html_urls[i] \in DOMAIN html_files
                /\ (<<"write">> \o html_urls[i]) \in Range(effects)
    /\ <<"Successfully pushed wines.json to GitHub">> \in Range(stdout) =>
          /\ Len(git_steps) = 3
          /\ \A k \in 1..3 : git_steps[k].rc = 0

\* C6's case: git commit failed after git add succeeded, with wines to publish
C6_Witness ==
    /\ pc = "done"
    /\ Len(git_steps) = 2
    /\ git_steps[2].rc # 0
    /\ wines # <<>>

\* wine_<ID>.html
PageName(wine) == <<"w","i","n","e","_">> \o wine[KeyID] \o <<".","h","t","m","l">>

\* C7: once generate_html_pages and generate_pdf are over, the URL of every
\* record's label is the base address followed by wine_<ID>.html, the name of
\* the detail document written in this run for this record; different records
\* have different documents, so as many documents were written as there are
\* records.
C7_LabelsLinkToPages ==
    GenerationDone =>
        /\ Len(blocks) = Len(wines)
        /\ pdf_file.exists /\ pdf_file.blocks = blocks
        /\ Len(html_urls) = Len(wines)
        /\ \A i \in 1..Len(wines) :
              /\ blocks[i].url = BASE_URL \o PageName(wines[i])
              /\ html_urls[i] = HTML_FOLDER \o <<"/">> \o PageName(wines[i])
              /\ (<<"write">> \o html_urls[i]) \in Range(effects)
              /\ html_urls[i] \in DOMAIN html_files
              /\ html_files[html_urls[i]] = HtmlContent(wines[i])
        /\ \A i, j \in 1..Len(wines) : i # j => html_urls[i] # html_urls[j]
        /\ Cardinality(Range(html_urls)) = Len(wines)

\* C7's case: a run has generated the pages and the labels of two wines
C7_Witness ==
    /\ pc = "done"
    /\ Len(wines) >= 2
    /\ Len(blocks) = Len(wines)

====
